---- MODULE Spec2Model ----
(***************************************************************************)
(* The request handlers of core/controllers/reader.py (the learner view of *)
(* an exploration) as a state machine.  A request is a handler instance    *)
(* with its input (user, URL arguments, payload); it is authorized by its  *)
(* decorator and then runs the handler body, which calls the domain        *)
(* services and renders a response.  Every call a request makes is kept,   *)
(* in order and with its reply, in log[r].                                 *)
(***************************************************************************)
EXTENDS Integers, Sequences, FiniteSets, TLC

VARIABLES
    req,     \* req[r]: the request's handler and input (fixed once created)
    pc,      \* pc[r]: where the request is in its handler
    loc,     \* loc[r]: the handler's local variables
    vals,    \* vals[o]: the dict self.values of handler instance o
    log,     \* log[r]: the calls request r made, in order, with replies
    resp,    \* resp[r]: how the request ended
    store,   \* what the domain services keep (events, progress, ratings...)
    config   \* feconf.ENABLE_NEW_STATS_FRAMEWORK

vars == <<req, pc, loc, vals, log, resp, store, config>>

----------------------------------------------------------------------------
(* Bounds of the model *)

\* Number of states of an exploration.
NumStates == 2

\* Program constant.
MAX_SYSTEM_RECOMMENDATIONS == 4

----------------------------------------------------------------------------
(* Python values *)

None == "None"

\* Python truthiness of the values requests carry: None, '', False, 0 are false.
Truthy(v) == v \notin {None, "", "False", "0"}

EmptyDict == << >>

\* dict.update(new): the keys of new override those of old.
Update(old, new) == new @@ old

\* int(s) of lines 120, 158, 197: a numeral gives its number (kept as the
\* canonical numeral), anything else raises ValueError.
Numerals == {"1", "2", "7", "01"}
int(s) == IF s \in Numerals THEN (IF s = "01" THEN "1" ELSE s) ELSE "ValueError"

Requests == {1, 2}

UserIds == {"u1", "u2"}

\* Explorations and collections the storage layer holds; e9, c9 and version 7
\* are ids that a request can name and that do not exist.
ExistingExps == {"e1", "e2"}
ExpIds == ExistingExps \cup {"e9"}
ExistingVersions == {"1", "2"}
LatestVersion == "2"
StatePool == <<"Intro", "Middle", "Final", "End">>
ExplorationStates == SubSeq(StatePool, 1, NumStates)
CollectionNodes == <<"e1", "e2">>
ExistingCollections == {"c1"}

Call(op, args, ret) == [op |-> op, args |-> args, ret |-> ret]

Ops(l) == [i \in 1..Len(l) |-> l[i].op]

HasOp(l, op) == \E i \in 1..Len(l) : l[i].op = op

CountOp(l, op) == Cardinality({i \in 1..Len(l) : l[i].op = op})

FirstOp(l, op) == CHOOSE i \in 1..Len(l) : l[i].op = op /\ \A j \in 1..(i-1) : l[j].op # op

\* Operations that render a normal response.
RenderOps == {"render_json", "render_template", "redirect"}

----------------------------------------------------------------------------
(* Requests *)

Absent == "<absent>"

\* self.payload.get(key, default): the default only when the key is absent.
PayloadGet(value, default) == IF value = Absent THEN default ELSE value

DefaultInput ==
    [handler |-> "", user_id |-> None, exploration_id |-> "e1",
     version |-> None, collection_id |-> None, state_name |-> "Intro",
     session_id |-> "s1", iframed |-> "", uri_embed |-> TRUE,
     raw_ids |-> "[]", include_sys |-> "", include_author |-> None,
     subject |-> Absent, params |-> "{}", answer |-> "a1",
     activity_type |-> "exploration", user_rating |-> "5"]

Handlers ==
    {"ExplorationPageEmbed.get", "ExplorationPage.get", "ExplorationHandler.get",
     "AnswerSubmittedEventHandler.post", "StateHitEventHandler.post",
     "StateCompleteEventHandler.post", "ClassifyHandler.post",
     "ReaderFeedbackHandler.post", "ExplorationStartEventHandler.post",
     "ExplorationActualStartEventHandler.post", "SolutionHitEventHandler.post",
     "ExplorationCompleteEventHandler.post", "ExplorationMaybeLeaveHandler.post",
     "LearnerIncompleteActivityHandler.delete", "RatingHandler.get",
     "RatingHandler.put", "RecommendationsHandler.get",
     "FlagExplorationHandler.post"}

\* The values of stringified_author_recommended_ids a request can carry.
RawIdValues ==
    {"", "[e1", "[]", "[\"e2\"]", "[\"e1\", \"e2\"]", "5", "\"e2\"", "null",
     "{\"e2\": 1}", "[[\"e2\"]]", "[3]"}

\* The inputs of handler h: every field the handler reads ranges over the
\* values that take its branches; wide selects the full ranges.
Inputs(h, wide) ==
    LET users == IF wide THEN {None} \cup UserIds ELSE {None, "u1"}
        exps == IF wide THEN ExpIds ELSE {"e1"}
        base == {[DefaultInput EXCEPT !.handler = h, !.user_id = u,
                                      !.exploration_id = e] :
                    u \in users, e \in exps}
    IN CASE h = "ExplorationPageEmbed.get" ->
              {[b EXCEPT !.version = v, !.collection_id = c, !.iframed = f,
                         !.uri_embed = x] :
                  b \in {b \in base : b.user_id # "u2"},
                  v \in IF wide THEN {"", "1", "7", "x"} ELSE {""},
                  c \in IF wide THEN {"", "c1", "c9"} ELSE {""},
                  f \in IF wide THEN {"", "true"} ELSE {""},
                  x \in IF wide THEN BOOLEAN ELSE {TRUE}}
         [] h = "ExplorationPage.get" ->
              {[b EXCEPT !.version = v, !.collection_id = c, !.iframed = f,
                         !.uri_embed = FALSE] :
                  b \in {b \in base : b.user_id # "u2"},
                  v \in IF wide THEN {"", "1", "7", "x"} ELSE {""},
                  c \in IF wide THEN {"", "c1", "c9"} ELSE {""},
                  f \in IF wide THEN {"", "true"} ELSE {""}}
         [] h = "ExplorationHandler.get" ->
              {[b EXCEPT !.version = v] :
                  b \in {b \in base : b.user_id # "u2"},
                  v \in IF wide THEN {"", "1", "01", "7", "x"} ELSE {""}}
         [] h = "AnswerSubmittedEventHandler.post" ->
              {[b EXCEPT !.version = v, !.state_name = s] :
                  b \in {b \in base : b.user_id # "u2"},
                  v \in IF wide THEN {None, "1", "7"} ELSE {"1"},
                  s \in IF wide THEN {"Intro", "Nowhere", None} ELSE {"Intro"}}
         [] h \in {"StateHitEventHandler.post", "StateCompleteEventHandler.post",
                   "ExplorationStartEventHandler.post",
                   "ExplorationActualStartEventHandler.post",
                   "SolutionHitEventHandler.post"} ->
              {[b EXCEPT !.version = v, !.state_name = s] :
                  b \in {b \in base : b.user_id # "u2"},
                  v \in IF wide THEN {None, "1"} ELSE {"1"},
                  s \in IF wide THEN {"Intro", None} ELSE {"Intro"}}
         [] h = "ClassifyHandler.post" ->
              {[b EXCEPT !.params = p, !.answer = a] :
                  b \in {b \in base : b.user_id # "u2"},
                  p \in IF wide THEN {"{}", None} ELSE {"{}"},
                  a \in IF wide THEN {"a1", "a2"} ELSE {"a1"}}
         [] h = "ReaderFeedbackHandler.post" ->
              {[b EXCEPT !.user_id = u, !.include_author = a, !.subject = s] :
                  b \in {b \in base : b.user_id = None},
                  u \in {None} \cup UserIds,
                  a \in {None, "False", "True"},
                  s \in IF wide THEN {Absent, None, "Typo"} ELSE {Absent}}
         [] h = "ExplorationCompleteEventHandler.post" ->
              {[b EXCEPT !.exploration_id = e, !.collection_id = c, !.version = "1"] :
                  b \in {b \in base : b.user_id # "u2" /\ b.exploration_id = "e1"},
                  e \in {"e1", "e2"},
                  c \in IF wide THEN {None, "", "c1"} ELSE {"c1"}}
         [] h = "ExplorationMaybeLeaveHandler.post" ->
              {[b EXCEPT !.exploration_id = e, !.collection_id = c, !.version = v,
                         !.state_name = s] :
                  b \in {b \in base : b.user_id # "u2" /\ b.exploration_id = "e1"},
                  e \in {"e1", "e2"},
                  c \in IF wide THEN {None, "", "c1"} ELSE {"c1"},
                  v \in IF wide THEN {None, "1"} ELSE {"1"},
                  s \in IF wide THEN {"Intro", "Middle"} ELSE {"Intro"}}
         [] h = "LearnerIncompleteActivityHandler.delete" ->
              {[b EXCEPT !.activity_type = t] :
                  b \in {b \in base : b.user_id # "u2"},
                  t \in IF wide THEN {"exploration", "collection", "story"}
                               ELSE {"exploration"}}
         [] h = "RatingHandler.put" ->
              {[b EXCEPT !.user_rating = g] :
                  b \in {b \in base : b.user_id # "u2"},
                  g \in IF wide THEN {"1", "5"} ELSE {"5"}}
         [] h = "RecommendationsHandler.get" ->
              {[b EXCEPT !.raw_ids = i, !.collection_id = c, !.include_sys = y] :
                  b \in {b \in base : b.user_id # "u2" /\ b.exploration_id # "e9"},
                  i \in IF wide THEN RawIdValues ELSE {"[\"e2\"]"},
                  c \in IF wide THEN {"", "c1", "c9"} ELSE {"", "c1"},
                  y \in IF wide THEN {"", "true"} ELSE {"true"}}
         [] OTHER -> {b \in base : b.user_id # "u2"}

NoInput == [DefaultInput EXCEPT !.handler = "none"]

----------------------------------------------------------------------------
(* The domain services, as far as this module calls them *)

\* exp_services.get_exploration_by_id(exploration_id, version=version): raises
\* when the exploration or the version does not exist.
ExpFound(e, version) ==
    e \in ExistingExps /\ (version = None \/ version \in ExistingVersions)

ExpVersion(version) == IF version = None THEN LatestVersion ELSE version

\* collection_services.get_collection_by_id(collection_id).
CollectionFound(c) == c \in ExistingCollections

RECURSIVE SelectSeq2(_, _)
\* The elements of sequence q that are not in set S, in order.
SelectSeq2(q, S) ==
    IF q = << >> THEN << >>
    ELSE IF Head(q) \in S THEN SelectSeq2(Tail(q), S)
         ELSE <<Head(q)>> \o SelectSeq2(Tail(q), S)

Range(q) == {q[i] : i \in 1..Len(q)}

\* collection_services.get_next_exploration_ids_to_complete_by_user: the
\* explorations of the collection the user has not played yet.
NextToComplete(st, u, c) ==
    IF CollectionFound(c)
    THEN SelectSeq2(CollectionNodes, {e \in ExpIds : <<u, c, e>> \in st.played})
    ELSE << >>

\* collection.get_next_exploration_ids_in_sequence(exploration_id): what
\* follows the exploration in the collection.
NextInSequence(e) ==
    IF \E i \in 1..Len(CollectionNodes) : CollectionNodes[i] = e
    THEN LET i == CHOOSE i \in 1..Len(CollectionNodes) : CollectionNodes[i] = e
         IN SubSeq(CollectionNodes, i + 1, IF i < Len(CollectionNodes) THEN i + 1 ELSE i)
    ELSE << >>

RecordPlayed(st, u, c, e) == [st EXCEPT !.played = @ \cup {<<u, c, e>>}]

MarkCollection(st, u, c, status) ==
    [st EXCEPT !.coll_status = {t \in @ : ~(t[1] = u /\ t[2] = c)} \cup {<<u, c, status>>}]

MarkExplorationCompleted(st, u, e) ==
    [st EXCEPT !.exp_status = {t \in @ : ~(t[1] = u /\ t[2] = e)} \cup {<<u, e, "completed">>}]

MarkExplorationIncomplete(st, u, e) ==
    [st EXCEPT !.exp_status = {t \in @ : ~(t[1] = u /\ t[2] = e)} \cup {<<u, e, "incomplete">>}]

RemoveExpFromIncomplete(st, u, e) ==
    [st EXCEPT !.exp_status = @ \ {<<u, e, "incomplete">>}]

RemoveCollectionFromIncomplete(st, u, c) ==
    [st EXCEPT !.coll_status = @ \ {<<u, c, "incomplete">>}]

RecordEvent(st, type, e) == [st EXCEPT !.events = Append(@, <<type, e>>)]

CreateThread(st, e, state_name, author, subject, feedback) ==
    [st EXCEPT !.threads = Append(@, <<e, state_name, author, subject, feedback>>)]

AssignRating(st, u, e, rating) ==
    [st EXCEPT !.ratings = {t \in @ : ~(t[1] = u /\ t[2] = e)} \cup {<<u, e, rating>>}]

UserRating(st, u, e) ==
    IF \E t \in st.ratings : t[1] = u /\ t[2] = e
    THEN (CHOOSE t \in st.ratings : t[1] = u /\ t[2] = e)[3]
    ELSE None

OverallRatings(st, e) == {<<t[1], t[3]>> : t \in {t \in st.ratings : t[2] = e}}

EnqueueFlag(st, e, text, u) == [st EXCEPT !.flags = Append(@, <<e, text, u>>)]

\* Classifier training jobs, and the data each carries.
JobIds == {"jobA", "jobB"}

JobData(j) ==
    IF j = "jobA"
    THEN [algorithm_id |-> "LDAStringClassifier", classifier_data |-> "dataA",
          data_schema_version |-> "1"]
    ELSE [algorithm_id |-> "TextClassifier", classifier_data |-> "dataB",
          data_schema_version |-> "2"]

\* What classifier_services.classify can return.
ClassifyResults ==
    {[outcome |-> "o1", answer_group_index |-> "0", rule_spec_index |-> "0"],
     [outcome |-> "o2", answer_group_index |-> "1", rule_spec_index |-> "2"]}

EmptyStore ==
    [events |-> << >>, exp_status |-> {}, played |-> {}, coll_status |-> {},
     threads |-> << >>, ratings |-> {}, flags |-> << >>, recs |-> << >>]

\* What recommendations_services.get_exploration_recommendations can hold.
RecReplies ==
    {<< >>, <<"e2">>, <<"e3", "e2", "e3">>, <<"e2", "e3", "e4", "e5", "e6">>}

----------------------------------------------------------------------------
(* Initial states *)

\* The stored state a request of handler h can meet: the handlers that read
\* the learner's progress or the recommendations meet every such state.
InitStores(h, wide) ==
    IF wide /\ h \in {"ExplorationCompleteEventHandler.post",
                       "ExplorationMaybeLeaveHandler.post",
                       "RecommendationsHandler.get"}
    THEN {[EmptyStore EXCEPT !.played = {<<"u1", "c1", e>> : e \in P},
                             !.recs = <<"e2">>] : P \in SUBSET {"e1", "e2"}}
         \cup {[EmptyStore EXCEPT !.recs = q] : q \in RecReplies}
    ELSE {[EmptyStore EXCEPT !.recs = <<"e2">>]}

NoLocals == [author |-> [t |-> "none", v |-> << >>], auto |-> << >>, left |-> << >>]

NoResponse == [kind |-> "none", body |-> EmptyDict]

InitRequest(active) ==
    /\ pc = [r \in Requests |-> IF r \in active THEN "start" ELSE "absent"]
    /\ loc = [r \in Requests |-> NoLocals]
    /\ vals = [r \in Requests |-> EmptyDict]
    /\ log = [r \in Requests |-> << >>]
    /\ resp = [r \in Requests |-> NoResponse]
    /\ config \in BOOLEAN

\* One request, of any handler, with any input.
Init ==
    /\ \E h \in Handlers : \E i \in Inputs(h, TRUE) :
          /\ req = [r \in Requests |-> IF r = 1 THEN i ELSE NoInput]
          /\ store \in InitStores(h, TRUE)
    /\ InitRequest({1})

----------------------------------------------------------------------------
(* The handlers *)

\* Decorator with the decorator line of RatingHandler.put left out.
DecoratorForgotten(h) ==
    CASE h = "LearnerIncompleteActivityHandler.delete" -> "can_access_learner_dashboard"
      [] h = "RatingHandler.put" -> "none"
      [] h = "FlagExplorationHandler.post" -> "can_flag_exploration"
      [] OTHER -> "can_play_exploration"

\* The decorator of each handler method (the @acl_decorators line above it).
Decorator(h) ==
    CASE h = "LearnerIncompleteActivityHandler.delete" -> "can_access_learner_dashboard"
      [] h = "RatingHandler.put" -> "can_rate_exploration"
      [] h = "FlagExplorationHandler.post" -> "can_flag_exploration"
      [] OTHER -> "can_play_exploration"

\* self.values kept in one dict shared by all handler instances.
ValuesShared(r) == 1

\* The handler instance whose dict self.values request r reads and writes:
\* its own.
ValuesOwner(r) == r

Values(r) == vals[ValuesOwner(r)]

SetValues(r, v) == vals' = [vals EXCEPT ![ValuesOwner(r)] = v]

Logs(r, calls) == log' = [log EXCEPT ![r] = @ \o calls]

\* The request ends: with a rendered response, or with an exception raised.
Ends(r, calls, kind, body) ==
    /\ Logs(r, calls)
    /\ resp' = [resp EXCEPT ![r] = [kind |-> kind, body |-> body]]
    /\ pc' = [pc EXCEPT ![r] = "done"]

Goes(r, calls, next) ==
    /\ Logs(r, calls)
    /\ pc' = [pc EXCEPT ![r] = next]
    /\ UNCHANGED resp

At(r, h, where) == pc[r] = where /\ req[r].handler = h

RenderJson == Call("render_json", << >>, None)

\* The authorization check of the decorator, which calls the handler body
\* only when the check passes; a method without a decorator runs at once.
Authorize(r) ==
    /\ pc[r] = "start"
    /\ LET dec == Decorator(req[r].handler)
       IN IF dec = "none"
          THEN Goes(r, << >>, "body")
          ELSE \E ok \in BOOLEAN :
                 LET c == Call("acl_check", <<dec, req[r].user_id>>, ok)
                 IN IF ok THEN Goes(r, <<c>>, "body")
                    ELSE Ends(r, <<c>>, "denied", EmptyDict)
    /\ UNCHANGED <<req, loc, vals, store, config>>

\* The record() call of an event handler class.
RecordCall(type, i) ==
    Call("record", <<type, i.exploration_id, i.version, i.state_name, i.session_id>>, None)

\* StateHitEventHandler.post without its test of new_state_name.
StateHit_AlwaysRecords(r) ==
    /\ At(r, "StateHitEventHandler.post", "body")
    /\ Ends(r, <<RecordCall("StateHitEventHandler", req[r]), RenderJson>>,
            "json", EmptyDict)
    /\ store' = RecordEvent(store, "StateHitEventHandler", req[r].exploration_id)
    /\ UNCHANGED <<req, loc, vals, config>>

\* StateHitEventHandler.post
StateHitEventHandler_post(r) ==
    /\ At(r, "StateHitEventHandler.post", "body")
    /\ LET i == req[r]
       IN IF i.state_name # None
          THEN /\ Ends(r, <<RecordCall("StateHitEventHandler", i), RenderJson>>,
                       "json", EmptyDict)
               /\ store' = RecordEvent(store, "StateHitEventHandler", i.exploration_id)
          ELSE /\ Ends(r, <<Call("logging.error", << >>, None), RenderJson>>,
                       "json", EmptyDict)
               /\ UNCHANGED store
    /\ UNCHANGED <<req, loc, vals, config>>

\* The handlers that record their event only under ENABLE_NEW_STATS_FRAMEWORK.
NewStatsHandler_post(r, h, type) ==
    /\ At(r, h, "body")
    /\ IF config
       THEN /\ Ends(r, <<RecordCall(type, req[r]), RenderJson>>, "json", EmptyDict)
            /\ store' = RecordEvent(store, type, req[r].exploration_id)
       ELSE /\ Ends(r, <<RenderJson>>, "json", EmptyDict)
            /\ UNCHANGED store
    /\ UNCHANGED <<req, loc, vals, config>>

\* StateCompleteEventHandler.post
StateCompleteEventHandler_post(r) ==
    NewStatsHandler_post(r, "StateCompleteEventHandler.post",
                         "StateCompleteEventHandler")

\* ExplorationActualStartEventHandler.post
ExplorationActualStartEventHandler_post(r) ==
    NewStatsHandler_post(r, "ExplorationActualStartEventHandler.post",
                         "ExplorationActualStartEventHandler")

\* SolutionHitEventHandler.post
SolutionHitEventHandler_post(r) ==
    NewStatsHandler_post(r, "SolutionHitEventHandler.post", "SolutionHitEventHandler")

\* ExplorationStartEventHandler.post
ExplorationStartEventHandler_post(r) ==
    /\ At(r, "ExplorationStartEventHandler.post", "body")
    /\ Ends(r, <<RecordCall("StartExplorationEventHandler", req[r]), RenderJson>>,
            "json", EmptyDict)
    /\ store' = RecordEvent(store, "StartExplorationEventHandler", req[r].exploration_id)
    /\ UNCHANGED <<req, loc, vals, config>>

\* AnswerSubmittedEventHandler.post: the lookup and the state access are not
\* guarded, so their exceptions leave the handler as they are.
AnswerSubmittedEventHandler_post(r) ==
    /\ At(r, "AnswerSubmittedEventHandler.post", "body")
    /\ LET i == req[r]
           found == ExpFound(i.exploration_id, i.version)
           get == Call("get_exploration_by_id", <<i.exploration_id, i.version>>, found)
       IN IF ~found
          THEN /\ Ends(r, <<get>>, "exception", [error |-> "Exception"])
               /\ UNCHANGED store
          ELSE IF i.state_name \notin Range(ExplorationStates)
          THEN /\ Ends(r, <<get>>, "exception", [error |-> "KeyError"])
               /\ UNCHANGED store
          ELSE /\ Ends(r, <<get,
                            Call("get_interaction_by_id", <<i.state_name>>, None),
                            Call("normalize_answer", <<i.answer>>, None),
                            RecordCall("AnswerSubmissionEventHandler", i), RenderJson>>,
                       "json", EmptyDict)
               /\ store' = RecordEvent(store, "AnswerSubmissionEventHandler",
                                       i.exploration_id)
    /\ UNCHANGED <<req, loc, vals, config>>

\* ClassifyHandler.post that also records the answer as an event.
Classify_RecordsAnswer(r) ==
    /\ At(r, "ClassifyHandler.post", "body")
    /\ LET i == req[r]
           from_dict == Call("State.from_dict", <<"old_state">>, None)
       IN IF i.params = None
          THEN /\ Ends(r, <<from_dict>>, "exception", [error |-> "TypeError"])
               /\ UNCHANGED store
          ELSE \E result \in ClassifyResults :
                 /\ Ends(r, <<from_dict, Call("classify", <<"old_state", i.answer>>, result),
                              RecordCall("AnswerSubmissionEventHandler", i),
                              RenderJson>>, "json", result)
                 /\ store' = RecordEvent(store, "AnswerSubmissionEventHandler",
                                         i.exploration_id)
    /\ UNCHANGED <<req, loc, vals, config>>

\* ClassifyHandler.post
ClassifyHandler_post(r) ==
    /\ At(r, "ClassifyHandler.post", "body")
    /\ LET i == req[r]
           from_dict == Call("State.from_dict", <<"old_state">>, None)
       IN IF i.params = None
          THEN Ends(r, <<from_dict>>, "exception", [error |-> "TypeError"])
          ELSE \E result \in ClassifyResults :
                 Ends(r, <<from_dict, Call("classify", <<"old_state", i.answer>>, result),
                           RenderJson>>, "json", result)
    /\ UNCHANGED <<req, loc, vals, store, config>>

\* ReaderFeedbackHandler.post passing the user whatever include_author is.
Feedback_AlwaysAuthor(r) ==
    /\ At(r, "ReaderFeedbackHandler.post", "body")
    /\ LET i == req[r]
           subject == PayloadGet(i.subject, "Feedback from a learner")
       IN /\ Ends(r, <<Call("create_thread",
                            <<i.exploration_id, i.state_name, i.user_id, subject,
                              "feedback">>, None), RenderJson>>, "json", Values(r))
          /\ store' = CreateThread(store, i.exploration_id, i.state_name, i.user_id,
                                   subject, "feedback")
    /\ UNCHANGED <<req, loc, vals, config>>

\* ReaderFeedbackHandler.post
ReaderFeedbackHandler_post(r) ==
    /\ At(r, "ReaderFeedbackHandler.post", "body")
    /\ LET i == req[r]
           subject == PayloadGet(i.subject, "Feedback from a learner")
           author == IF Truthy(i.include_author) THEN i.user_id ELSE None
       IN /\ Ends(r, <<Call("create_thread",
                            <<i.exploration_id, i.state_name, author, subject, "feedback">>,
                            None), RenderJson>>, "json", Values(r))
          /\ store' = CreateThread(store, i.exploration_id, i.state_name, author,
                                   subject, "feedback")
    /\ UNCHANGED <<req, loc, vals, config>>

\* LearnerIncompleteActivityHandler.delete
LearnerIncompleteActivityHandler_delete(r) ==
    /\ At(r, "LearnerIncompleteActivityHandler.delete", "body")
    /\ LET i == req[r]
       IN CASE i.activity_type = "exploration" ->
                 /\ Ends(r, <<Call("remove_exp_from_incomplete_list",
                                   <<i.user_id, i.exploration_id>>, None), RenderJson>>,
                         "json", Values(r))
                 /\ store' = RemoveExpFromIncomplete(store, i.user_id, i.exploration_id)
            [] i.activity_type = "collection" ->
                 /\ Ends(r, <<Call("remove_collection_from_incomplete_list",
                                   <<i.user_id, i.exploration_id>>, None), RenderJson>>,
                         "json", Values(r))
                 /\ store' = RemoveCollectionFromIncomplete(store, i.user_id,
                                                            i.exploration_id)
            [] OTHER ->
                 /\ Ends(r, <<RenderJson>>, "json", Values(r))
                 /\ UNCHANGED store
    /\ UNCHANGED <<req, loc, vals, config>>

\* RatingHandler.get
RatingHandler_get(r) ==
    /\ At(r, "RatingHandler.get", "body")
    /\ LET i == req[r]
           overall == OverallRatings(store, i.exploration_id)
           c1 == Call("get_overall_ratings_for_exploration", <<i.exploration_id>>, overall)
           mine == UserRating(store, i.user_id, i.exploration_id)
           c2 == IF Truthy(i.user_id)
                 THEN <<Call("get_user_specific_rating_for_exploration",
                             <<i.user_id, i.exploration_id>>, mine)>>
                 ELSE << >>
           v == Update(Values(r),
                       [overall_ratings |-> overall,
                        user_rating |-> IF Truthy(i.user_id) THEN mine ELSE None])
       IN /\ Ends(r, <<c1>> \o c2 \o <<RenderJson>>, "json", v)
          /\ SetValues(r, v)
    /\ UNCHANGED <<req, loc, store, config>>

\* RatingHandler.put
RatingHandler_put(r) ==
    /\ At(r, "RatingHandler.put", "body")
    /\ LET i == req[r]
       IN /\ Ends(r, <<Call("assign_rating_to_exploration",
                            <<i.user_id, i.exploration_id, i.user_rating>>, None),
                       RenderJson>>, "json", EmptyDict)
          /\ store' = AssignRating(store, i.user_id, i.exploration_id, i.user_rating)
    /\ UNCHANGED <<req, loc, vals, config>>

\* FlagExplorationHandler.post
FlagExplorationHandler_post(r) ==
    /\ At(r, "FlagExplorationHandler.post", "body")
    /\ LET i == req[r]
       IN /\ Ends(r, <<Call("enqueue_flag_exploration_email_task",
                            <<i.exploration_id, "report_text", i.user_id>>, None),
                       RenderJson>>, "json", Values(r))
          /\ store' = EnqueueFlag(store, i.exploration_id, "report_text", i.user_id)
    /\ UNCHANGED <<req, loc, vals, config>>

\* _get_exploration_player_data: the lookups it makes and the template values
\* it returns; ok is false when it raises.
PlayerData(exploration_id, version, collection_id, can_edit, is_private) ==
    LET found == ExpFound(exploration_id, version)
        get == <<Call("get_exploration_by_id", <<exploration_id, version>>, found)>>
        wanted == Truthy(collection_id)
        cfound == CollectionFound(collection_id)
        cget == IF found /\ wanted
                THEN <<Call("get_collection_by_id", <<collection_id>>, cfound)>>
                ELSE << >>
        ok == found /\ (wanted => cfound)
        rest == IF ok
                THEN <<Call("get_interaction_html", <<exploration_id>>, None),
                       Call("is_exploration_private", <<exploration_id>>, is_private)>>
                ELSE << >>
    IN [ok |-> ok,
        calls |-> get \o cget \o rest,
        values |-> [can_edit |-> can_edit,
                    exploration_title |-> "title",
                    exploration_version |-> ExpVersion(version),
                    collection_id |-> collection_id,
                    collection_title |-> IF wanted THEN "collection title" ELSE None,
                    is_private |-> is_private,
                    nav_mode |-> "explore"]]

\* The first lines of both page handlers: version, rights, can_edit.
PageRights(i, can_edit) ==
    <<Call("get_exploration_rights", <<i.exploration_id>>, None),
      Call("check_can_edit_activity", <<i.user_id>>, can_edit)>>

\* ExplorationPageEmbed.get
ExplorationPageEmbed_get(r) ==
    /\ At(r, "ExplorationPageEmbed.get", "body")
    /\ LET i == req[r]
           version == IF Truthy(i.version) THEN int(i.version) ELSE None
       IN IF version = "ValueError"
          THEN /\ Ends(r, << >>, "exception", [error |-> "ValueError"])
               /\ UNCHANGED vals
          ELSE \E can_edit \in BOOLEAN, is_private \in BOOLEAN :
                 LET v1 == IF i.uri_embed \/ Truthy(i.iframed)
                           THEN Update(Values(r), [iframed |-> TRUE])
                           ELSE Values(r)
                     data == PlayerData(i.exploration_id, version, i.collection_id,
                                        can_edit, is_private)
                     v2 == Update(Update(v1, data.values), [iframed |-> TRUE])
                 IN IF ~data.ok
                    THEN /\ Ends(r, PageRights(i, can_edit) \o data.calls,
                                 "page_not_found", v1)
                         /\ SetValues(r, v1)
                    ELSE /\ Ends(r, PageRights(i, can_edit) \o data.calls
                                    \o <<Call("render_template", << >>, None)>>,
                                 "html", v2)
                         /\ SetValues(r, v2)
    /\ UNCHANGED <<req, loc, store, config>>

\* ExplorationPage.get
ExplorationPage_get(r) ==
    /\ At(r, "ExplorationPage.get", "body")
    /\ LET i == req[r]
           version == IF Truthy(i.version) THEN int(i.version) ELSE None
           rights == Call("get_exploration_rights", <<i.exploration_id>>, None)
       IN IF version = "ValueError"
          THEN /\ Ends(r, << >>, "exception", [error |-> "ValueError"])
               /\ UNCHANGED vals
          ELSE IF Truthy(i.iframed)
          THEN /\ Ends(r, <<rights, Call("redirect", << >>, None)>>, "redirect",
                       [url |-> <<"/embed/exploration/", i.exploration_id>>
                                \o IF Truthy(i.version) THEN <<"?v=", i.version>>
                                   ELSE << >>])
               /\ UNCHANGED vals
          ELSE \E can_edit \in BOOLEAN, is_private \in BOOLEAN :
                 LET data == PlayerData(i.exploration_id, version, i.collection_id,
                                        can_edit, is_private)
                     v2 == Update(Update(Values(r), data.values), [iframed |-> FALSE])
                 IN IF ~data.ok
                    THEN /\ Ends(r, PageRights(i, can_edit) \o data.calls,
                                 "page_not_found", Values(r))
                         /\ UNCHANGED vals
                    ELSE /\ Ends(r, PageRights(i, can_edit) \o data.calls
                                    \o <<Call("render_template", << >>, None)>>,
                                 "html", v2)
                         /\ SetValues(r, v2)
    /\ UNCHANGED <<req, loc, store, config>>

\* The loop reading the job one index too early (enumerate from the wrong
\* start): each state gets the data of the job before it.
ClassifierMappingShifted(states, jobs, n) ==
    [s \in {states[k] : k \in {k \in 1..n : jobs[k] # None}} |->
        LET k == CHOOSE k \in 1..n : states[k] = s
        IN JobData(jobs[IF k = 1 THEN n ELSE k - 1])]

RECURSIVE ClassifierMapping(_, _, _)
\* The loop of lines 219-230 over the first n states: state_classifier_mapping
\* gets an entry for states[index] when classifier_training_jobs[index] is
\* not None.
ClassifierMapping(states, jobs, n) ==
    IF n = 0 THEN EmptyDict
    ELSE LET m == ClassifierMapping(states, jobs, n - 1)
         IN IF jobs[n] # None
            THEN Update(m, states[n] :> JobData(jobs[n]))
            ELSE m

\* ExplorationHandler.get
ExplorationHandler_get(r) ==
    /\ At(r, "ExplorationHandler.get", "body")
    /\ LET i == req[r]
           version == IF Truthy(i.version) THEN int(i.version) ELSE None
           found == ExpFound(i.exploration_id, version)
           get == Call("get_exploration_by_id", <<i.exploration_id, version>>, found)
       IN IF version = "ValueError"
          THEN /\ Ends(r, << >>, "exception", [error |-> "ValueError"])
               /\ UNCHANGED vals
          ELSE IF ~found
          THEN /\ Ends(r, <<get>>, "page_not_found", Values(r))
               /\ UNCHANGED vals
          ELSE \E language \in {None, "en"}, can_edit \in BOOLEAN,
                  jobs \in [1..NumStates -> JobIds \cup {None}] :
                 LET v == Update(Values(r),
                            [can_edit |-> can_edit,
                             exploration |-> "player_dict",
                             exploration_id |-> i.exploration_id,
                             is_logged_in |-> Truthy(i.user_id),
                             session_id |-> "new_session_id",
                             version |-> ExpVersion(version),
                             preferred_audio_language_code |-> language,
                             state_classifier_mapping |->
                                 ClassifierMapping(ExplorationStates, jobs,
                                                   Len(ExplorationStates))])
                 IN /\ Ends(r, <<get,
                         Call("get_exploration_rights", <<i.exploration_id>>, None),
                         Call("get_user_settings", <<i.user_id>>, language),
                         Call("get_classifier_training_jobs",
                              <<i.exploration_id, ExpVersion(version)>>, jobs),
                         Call("check_can_edit_activity", <<i.user_id>>, can_edit),
                         Call("generate_new_session_id", << >>, "new_session_id"),
                         RenderJson>>, "json", v)
                    /\ SetValues(r, v)
    /\ UNCHANGED <<req, loc, store, config>>

\* Ends the handlers that finish with self.render_json(self.values) after
\* several service calls.
RenderValues(r) ==
    /\ pc[r] = "render"
    /\ Ends(r, <<RenderJson>>, "json", Values(r))
    /\ UNCHANGED <<req, loc, vals, store, config>>

\* ExplorationCompleteEventHandler.post, one action per service call.
\* Lines 454-461: the completion event.
Complete_RecordEvent(r) ==
    /\ At(r, "ExplorationCompleteEventHandler.post", "body")
    /\ Goes(r, <<RecordCall("CompleteExplorationEventHandler", req[r])>>,
            IF Truthy(req[r].user_id) THEN "mark_exploration" ELSE "render")
    /\ store' = RecordEvent(store, "CompleteExplorationEventHandler",
                            req[r].exploration_id)
    /\ UNCHANGED <<req, loc, vals, config>>

\* Lines 463-469 with the second test reduced to "if user_id:".
Complete_MarkExploration_NoCollectionTest(r) ==
    /\ At(r, "ExplorationCompleteEventHandler.post", "mark_exploration")
    /\ LET i == req[r]
       IN /\ Goes(r, <<Call("mark_exploration_as_completed",
                            <<i.user_id, i.exploration_id>>, None)>>,
                  IF Truthy(i.user_id) THEN "record_played" ELSE "render")
          /\ store' = MarkExplorationCompleted(store, i.user_id, i.exploration_id)
    /\ UNCHANGED <<req, loc, vals, config>>

\* Lines 463-465.
Complete_MarkExploration(r) ==
    /\ At(r, "ExplorationCompleteEventHandler.post", "mark_exploration")
    /\ LET i == req[r]
       IN /\ Goes(r, <<Call("mark_exploration_as_completed",
                            <<i.user_id, i.exploration_id>>, None)>>,
                  IF Truthy(i.user_id) /\ Truthy(i.collection_id)
                  THEN "record_played" ELSE "render")
          /\ store' = MarkExplorationCompleted(store, i.user_id, i.exploration_id)
    /\ UNCHANGED <<req, loc, vals, config>>

\* Lines 468-469.
Complete_RecordPlayed(r) ==
    /\ At(r, "ExplorationCompleteEventHandler.post", "record_played")
    /\ LET i == req[r]
       IN /\ Goes(r, <<Call("record_played_exploration_in_collection_context",
                            <<i.user_id, i.collection_id, i.exploration_id>>, None)>>,
                  "get_next")
          /\ store' = RecordPlayed(store, i.user_id, i.collection_id, i.exploration_id)
    /\ UNCHANGED <<req, loc, vals, config>>

\* Lines 470-472.
Complete_GetNext(r) ==
    /\ At(r, "ExplorationCompleteEventHandler.post", "get_next")
    /\ LET i == req[r]
           left == NextToComplete(store, i.user_id, i.collection_id)
       IN /\ Goes(r, <<Call("get_next_exploration_ids_to_complete_by_user",
                            <<i.user_id, i.collection_id>>, left)>>, "mark_collection")
          /\ loc' = [loc EXCEPT ![r].left = left]
    /\ UNCHANGED <<req, vals, store, config>>

\* The test of line 474 inverted.
CollectionMarkingInverted(left) == IF left # << >> THEN "completed" ELSE "incomplete"

\* The marking lines 474-479 choose from collections_left_to_complete.
CollectionMarking(left) == IF left = << >> THEN "completed" ELSE "incomplete"

Complete_MarkCollection(r) ==
    /\ At(r, "ExplorationCompleteEventHandler.post", "mark_collection")
    /\ LET i == req[r]
           status == CollectionMarking(loc[r].left)
       IN /\ Goes(r, <<Call("mark_collection_as_" \o status,
                            <<i.user_id, i.collection_id>>, None)>>, "render")
          /\ store' = MarkCollection(store, i.user_id, i.collection_id, status)
    /\ UNCHANGED <<req, loc, vals, config>>

\* ExplorationMaybeLeaveHandler.post, one action per service call.
\* Lines 500-502.
MaybeLeave_MarkExploration(r) ==
    /\ At(r, "ExplorationMaybeLeaveHandler.post", "body")
    /\ Truthy(req[r].user_id)
    /\ LET i == req[r]
       IN /\ Goes(r, <<Call("mark_exploration_as_incomplete",
                            <<i.user_id, i.exploration_id, i.state_name, i.version>>,
                            None)>>,
                  IF Truthy(i.collection_id) THEN "leave_collection" ELSE "leave_record")
          /\ store' = MarkExplorationIncomplete(store, i.user_id, i.exploration_id)
    /\ UNCHANGED <<req, loc, vals, config>>

\* Lines 504-506.
MaybeLeave_MarkCollection(r) ==
    /\ At(r, "ExplorationMaybeLeaveHandler.post", "leave_collection")
    /\ LET i == req[r]
       IN /\ Goes(r, <<Call("mark_collection_as_incomplete",
                            <<i.user_id, i.collection_id>>, None)>>, "leave_record")
          /\ store' = MarkCollection(store, i.user_id, i.collection_id, "incomplete")
    /\ UNCHANGED <<req, loc, vals, config>>

\* The event recorded at the top of the method, before the markings, which
\* are then skipped.
MaybeLeave_RecordsFirst(r) ==
    /\ \/ At(r, "ExplorationMaybeLeaveHandler.post", "leave_record")
       \/ At(r, "ExplorationMaybeLeaveHandler.post", "body")
    /\ Goes(r, <<RecordCall("MaybeLeaveExplorationEventHandler", req[r])>>, "render")
    /\ store' = RecordEvent(store, "MaybeLeaveExplorationEventHandler",
                            req[r].exploration_id)
    /\ UNCHANGED <<req, loc, vals, config>>

\* Lines 508-515.
MaybeLeave_RecordEvent(r) ==
    /\ \/ At(r, "ExplorationMaybeLeaveHandler.post", "leave_record")
       \/ At(r, "ExplorationMaybeLeaveHandler.post", "body") /\ ~Truthy(req[r].user_id)
    /\ Goes(r, <<RecordCall("MaybeLeaveExplorationEventHandler", req[r])>>, "render")
    /\ store' = RecordEvent(store, "MaybeLeaveExplorationEventHandler",
                            req[r].exploration_id)
    /\ UNCHANGED <<req, loc, vals, config>>

\* json.loads of the values a request can carry: t is the Python type of the
\* result ("err" when json.loads raises), v its elements (the characters of a
\* string, the keys of a dict).
json_loads(raw) ==
    CASE raw = "[]" -> [t |-> "list", v |-> << >>]
      [] raw = "[\"e2\"]" -> [t |-> "list", v |-> <<"e2">>]
      [] raw = "[\"e1\", \"e2\"]" -> [t |-> "list", v |-> <<"e1", "e2">>]
      [] raw = "[3]" -> [t |-> "list", v |-> <<"3">>]
      [] raw = "[[\"e2\"]]" -> [t |-> "list_of_lists", v |-> <<"[e2]">>]
      [] raw = "5" -> [t |-> "int", v |-> << >>]
      [] raw = "\"e2\"" -> [t |-> "unicode", v |-> <<"e", "2">>]
      [] raw = "null" -> [t |-> "NoneType", v |-> << >>]
      [] raw = "{\"e2\": 1}" -> [t |-> "dict", v |-> <<"e2">>]
      [] OTHER -> [t |-> "err", v |-> << >>]

\* set(x) raises TypeError unless x is iterable with hashable elements.
SetOk(x) == x.t \in {"list", "unicode", "dict"}

\* x + [...] raises TypeError unless x is a list.
ConcatOk(x) == x.t \in {"list", "list_of_lists"}

Min(a, b) == IF a < b THEN a ELSE b

\* The lists of k distinct elements of S: what list(set) and random.sample
\* can return.
Arrangements(S, k) ==
    {q \in [1..k -> S] : \A a, b \in 1..k : a # b => q[a] # q[b]}

\* auto_recommended_exp_ids = list(set(next) - set(author)), lines 595-597
\* and 607-609, in any order.
AutoFrom(next, author) ==
    LET S == Range(next) \ Range(author.v) IN Arrangements(S, Cardinality(S))

\* The system's ids sampled without taking the author's out of them.
SampleUnfiltered(system, author) ==
    LET S == Range(system)
    IN Arrangements(S, Min(MAX_SYSTEM_RECOMMENDATIONS, Cardinality(S)))

\* Lines 614-619: the system's ids without the author's, sampled.
SampleFrom(system, author) ==
    LET S == Range(system) \ Range(author.v)
    IN Arrangements(S, Min(MAX_SYSTEM_RECOMMENDATIONS, Cardinality(S)))

\* RecommendationsHandler.get, one action per service call.
\* Lines 581-588: the parameters.
Recommendations_Parse(r) ==
    /\ At(r, "RecommendationsHandler.get", "body")
    /\ LET i == req[r]
           author == json_loads(i.raw_ids)
       IN IF author.t = "err"
          THEN /\ Ends(r, <<Call("json.loads", <<i.raw_ids>>, "ValueError")>>,
                       "page_not_found", Values(r))
               /\ UNCHANGED loc
          ELSE /\ Goes(r, <<Call("json.loads", <<i.raw_ids>>, author.t)>>,
                       IF Truthy(i.user_id) /\ Truthy(i.collection_id) THEN "user_next"
                       ELSE IF Truthy(i.collection_id) THEN "collection"
                       ELSE IF Truthy(i.include_sys) THEN "system"
                       ELSE "summaries")
               /\ loc' = [loc EXCEPT ![r].author = author]
    /\ UNCHANGED <<req, vals, store, config>>

\* The logged-in branch falling back on the system recommender when the user
\* has nothing left to complete in the collection.
Recommendations_UserNext_FallsBack(r) ==
    /\ At(r, "RecommendationsHandler.get", "user_next")
    /\ LET i == req[r]
           next == NextToComplete(store, i.user_id, i.collection_id)
           c == Call("get_next_exploration_ids_to_complete_by_user",
                     <<i.user_id, i.collection_id>>, next)
       IN IF ~SetOk(loc[r].author)
          THEN /\ Ends(r, <<c>>, "exception", [error |-> "TypeError"])
               /\ UNCHANGED loc
          ELSE \E auto \in AutoFrom(next, loc[r].author) :
                 /\ Goes(r, <<c>>, IF next = << >> /\ Truthy(i.include_sys)
                                   THEN "system" ELSE "summaries")
                 /\ loc' = [loc EXCEPT ![r].auto = auto]
    /\ UNCHANGED <<req, vals, store, config>>

\* Lines 591-597.
Recommendations_UserNext(r) ==
    /\ At(r, "RecommendationsHandler.get", "user_next")
    /\ LET i == req[r]
           next == NextToComplete(store, i.user_id, i.collection_id)
           c == Call("get_next_exploration_ids_to_complete_by_user",
                     <<i.user_id, i.collection_id>>, next)
       IN IF ~SetOk(loc[r].author)
          THEN /\ Ends(r, <<c>>, "exception", [error |-> "TypeError"])
               /\ UNCHANGED loc
          ELSE \E auto \in AutoFrom(next, loc[r].author) :
                 /\ Goes(r, <<c>>, "summaries")
                 /\ loc' = [loc EXCEPT ![r].auto = auto]
    /\ UNCHANGED <<req, vals, store, config>>

\* Lines 599-609.
Recommendations_Collection(r) ==
    /\ At(r, "RecommendationsHandler.get", "collection")
    /\ LET i == req[r]
           found == CollectionFound(i.collection_id)
           get == Call("get_collection_by_id", <<i.collection_id>>, found)
           next == NextInSequence(i.exploration_id)
           seq == Call("get_next_exploration_ids_in_sequence", <<i.exploration_id>>, next)
       IN IF ~found
          THEN /\ Ends(r, <<get>>, "exception", [error |-> "Exception"])
               /\ UNCHANGED loc
          ELSE IF next # << >>
          THEN IF ~SetOk(loc[r].author)
               THEN /\ Ends(r, <<get, seq>>, "exception", [error |-> "TypeError"])
                    /\ UNCHANGED loc
               ELSE \E auto \in AutoFrom(next, loc[r].author) :
                      /\ Goes(r, <<get, seq>>, "summaries")
                      /\ loc' = [loc EXCEPT ![r].auto = auto]
          ELSE /\ Goes(r, <<get, seq>>,
                       IF Truthy(i.include_sys) THEN "system" ELSE "summaries")
               /\ UNCHANGED loc
    /\ UNCHANGED <<req, vals, store, config>>

\* Lines 610-619.
Recommendations_System(r) ==
    /\ At(r, "RecommendationsHandler.get", "system")
    /\ LET i == req[r]
           c == Call("get_exploration_recommendations", <<i.exploration_id>>, store.recs)
       IN IF ~SetOk(loc[r].author)
          THEN /\ Ends(r, <<c>>, "exception", [error |-> "TypeError"])
               /\ UNCHANGED loc
          ELSE \E auto \in SampleFrom(store.recs, loc[r].author) :
                 /\ Goes(r, <<c, Call("random.sample", << >>, auto)>>, "summaries")
                 /\ loc' = [loc EXCEPT ![r].auto = auto]
    /\ UNCHANGED <<req, vals, store, config>>

\* Lines 621-625.
Recommendations_Summaries(r) ==
    /\ At(r, "RecommendationsHandler.get", "summaries")
    /\ IF ~ConcatOk(loc[r].author)
       THEN /\ Ends(r, << >>, "exception", [error |-> "TypeError"])
            /\ UNCHANGED vals
       ELSE LET ids == loc[r].author.v \o loc[r].auto
            IN /\ Goes(r, <<Call("get_displayable_exp_summary_dicts_matching_ids",
                                 << >>, ids)>>, "render")
               /\ SetValues(r, Update(Values(r), [summaries |-> ids]))
    /\ UNCHANGED <<req, loc, store, config>>

----------------------------------------------------------------------------
(* The specifications *)

Step(r) ==
    \/ Authorize(r)
    \/ ExplorationPageEmbed_get(r)
    \/ ExplorationPage_get(r)
    \/ ExplorationHandler_get(r)
    \/ AnswerSubmittedEventHandler_post(r)
    \/ StateHitEventHandler_post(r)
    \/ StateCompleteEventHandler_post(r)
    \/ ClassifyHandler_post(r)
    \/ ReaderFeedbackHandler_post(r)
    \/ ExplorationStartEventHandler_post(r)
    \/ ExplorationActualStartEventHandler_post(r)
    \/ SolutionHitEventHandler_post(r)
    \/ Complete_RecordEvent(r)
    \/ Complete_MarkExploration(r)
    \/ Complete_RecordPlayed(r)
    \/ Complete_GetNext(r)
    \/ Complete_MarkCollection(r)
    \/ MaybeLeave_MarkExploration(r)
    \/ MaybeLeave_MarkCollection(r)
    \/ MaybeLeave_RecordEvent(r)
    \/ LearnerIncompleteActivityHandler_delete(r)
    \/ RatingHandler_get(r)
    \/ RatingHandler_put(r)
    \/ Recommendations_Parse(r)
    \/ Recommendations_UserNext(r)
    \/ Recommendations_Collection(r)
    \/ Recommendations_System(r)
    \/ Recommendations_Summaries(r)
    \/ FlagExplorationHandler_post(r)
    \/ RenderValues(r)

Next == \E r \in Requests : Step(r)

\* One request handled alone.
Spec == Init /\ [][Next]_vars
\* Two requests handled concurrently: their steps interleave in any order.
InitConc ==
    /\ \E h1 \in Handlers, h2 \in Handlers :
         \E i1 \in Inputs(h1, FALSE), i2 \in Inputs(h2, FALSE) :
            req = [r \in Requests |-> IF r = 1 THEN i1
                                      ELSE [i2 EXCEPT !.session_id = "s2"]]
    /\ store = [EmptyStore EXCEPT !.recs = <<"e2">>]
    /\ InitRequest({1, 2})

SpecConc == InitConc /\ [][Next]_vars

----------------------------------------------------------------------------
(* The claims *)

\* The authorization check of request r has passed.
Passed(r) ==
    /\ Len(log[r]) >= 1
    /\ log[r][1].op = "acl_check"
    /\ log[r][1].ret = TRUE

Ret(l, op) == l[FirstOp(l, op)].ret

Permissions ==
    {"can_play_exploration", "can_rate_exploration", "can_flag_exploration",
     "can_access_learner_dashboard"}

\* C1: in every request the first thing that happens is the authorization
\* check of the endpoint's decorator; every call and every response of the
\* handler body comes after a passed check, and a request whose check fails
\* makes no call of the body and ends denied.
AuthorizationFirst ==
    \A r \in Requests :
       /\ pc[r] \notin {"start", "absent"} =>
             /\ Len(log[r]) >= 1
             /\ log[r][1].op = "acl_check"
             /\ log[r][1].args[1] \in Permissions
       /\ (Len(log[r]) >= 2 \/ resp[r].kind \notin {"none", "denied"}) => Passed(r)
       /\ (pc[r] \notin {"start", "absent"} /\ ~Passed(r)) =>
             /\ Len(log[r]) = 1
             /\ resp[r].kind = "denied"
             /\ pc[r] = "done"
       /\ \A k \in 2..Len(log[r]) : log[r][k].op # "acl_check"

\* C1 witness: an authorized request whose body called a service and rendered.
AuthorizedBodyRan ==
    \E r \in Requests :
       /\ Passed(r)
       /\ Len(log[r]) >= 3
       /\ resp[r].kind = "json"

LookupOps == {"get_exploration_by_id", "get_collection_by_id"}

FailedLookup(r) ==
    \E k \in 1..Len(log[r]) : log[r][k].op \in LookupOps /\ log[r][k].ret = FALSE

\* C2: a request in which a lookup of an exploration or of a collection
\* failed ends with a page-not-found error and renders nothing.
FailedLookupIsPageNotFound ==
    \A r \in Requests :
       (pc[r] = "done" /\ FailedLookup(r)) =>
          /\ resp[r].kind = "page_not_found"
          /\ \A k \in 1..Len(log[r]) : log[r][k].op \notin RenderOps

\* A value of stringified_author_recommended_ids that is not a list of
\* exploration ids.
Malformed(raw) == raw \notin {"[]", "[\"e2\"]", "[\"e1\", \"e2\"]"}

RecommendationOps ==
    {"get_collection_by_id", "get_next_exploration_ids_in_sequence",
     "get_next_exploration_ids_to_complete_by_user",
     "get_exploration_recommendations",
     "get_displayable_exp_summary_dicts_matching_ids"}

\* C3: a recommendations GET with malformed author-recommended ids makes no
\* collection lookup, recommender call or summary lookup, and ends with a
\* page-not-found error.
MalformedIdsIsPageNotFound ==
    \A r \in Requests :
       (req[r].handler = "RecommendationsHandler.get" /\ Malformed(req[r].raw_ids)) =>
          /\ \A k \in 1..Len(log[r]) : log[r][k].op \notin RecommendationOps
          /\ (pc[r] = "done" /\ Passed(r)) => resp[r].kind = "page_not_found"

\* The event-tracking endpoints and the event type that matches each.
EventType(h) ==
    CASE h = "AnswerSubmittedEventHandler.post" -> "AnswerSubmissionEventHandler"
      [] h = "StateHitEventHandler.post" -> "StateHitEventHandler"
      [] h = "StateCompleteEventHandler.post" -> "StateCompleteEventHandler"
      [] h = "ExplorationStartEventHandler.post" -> "StartExplorationEventHandler"
      [] h = "ExplorationActualStartEventHandler.post" -> "ExplorationActualStartEventHandler"
      [] h = "SolutionHitEventHandler.post" -> "SolutionHitEventHandler"
      [] h = "ExplorationCompleteEventHandler.post" -> "CompleteExplorationEventHandler"
      [] h = "ExplorationMaybeLeaveHandler.post" -> "MaybeLeaveExplorationEventHandler"
      [] OTHER -> "none"

EventHandlers == {h \in Handlers : EventType(h) # "none"}

\* The events request r recorded, and where in its log.
Recorded(r) == {k \in 1..Len(log[r]) : log[r][k].op = "record"}

RecordsBeforeResponse(r) ==
    \A k \in Recorded(r) :
       /\ log[r][k].args[1] = EventType(req[r].handler)
       /\ \A j \in 1..k : log[r][j].op # "render_json"

RecordsNothing(r) ==
    \/ req[r].handler = "StateHitEventHandler.post" /\ req[r].state_name = None
    \/ /\ req[r].handler \in {"StateCompleteEventHandler.post",
                              "ExplorationActualStartEventHandler.post",
                              "SolutionHitEventHandler.post"}
       /\ ~config

StoreChangingOps ==
    {"record", "create_thread", "assign_rating_to_exploration",
     "mark_exploration_as_completed", "mark_exploration_as_incomplete",
     "mark_collection_as_completed", "mark_collection_as_incomplete",
     "record_played_exploration_in_collection_context",
     "remove_exp_from_incomplete_list", "remove_collection_from_incomplete_list",
     "enqueue_flag_exploration_email_task"}

\* C5: the step that handles a classify POST leaves everything the services
\* store as it is, calls no service that records or stores, and its response
\* is the result the classifier returned for the submitted state and answer.
ClassifyIsStateless ==
    [][\A r \in Requests :
          (req[r].handler = "ClassifyHandler.post" /\ pc[r] = "body" /\ pc'[r] # "body") =>
             /\ store' = store
             /\ \A k \in 1..Len(log'[r]) : log'[r][k].op \notin StoreChangingOps
             /\ resp'[r].kind = "json" =>
                   /\ CountOp(log'[r], "classify") = 1
                   /\ resp'[r].body = Ret(log'[r], "classify")
                   /\ log'[r][FirstOp(log'[r], "classify")].args
                         = <<"old_state", req[r].answer>>
                   /\ DOMAIN resp'[r].body
                         = {"outcome", "answer_group_index", "rule_spec_index"}]_vars

\* C5 witness: a classify POST has answered with a classifier result.
ClassifyAnswered ==
    \E r \in Requests :
       /\ req[r].handler = "ClassifyHandler.post"
       /\ resp[r].kind = "json"
       /\ resp[r].body \in ClassifyResults

\* The mapping the jobs returned for the exploration's states call for: an
\* entry for each state whose job is not None, with that job's data.
ExpectedMapping(jobs) ==
    [s \in {ExplorationStates[k] : k \in {k \in 1..NumStates : jobs[k] # None}} |->
        JobData(jobs[CHOOSE k \in 1..NumStates : ExplorationStates[k] = s])]

\* C7: in the init response state_classifier_mapping has an entry for a state
\* exactly when the training job returned for that state is not None, and the
\* entry holds the algorithm_id, classifier_data and data_schema_version of
\* that job.
ClassifierMappingMatchesJobs ==
    \A r \in Requests :
       (req[r].handler = "ExplorationHandler.get" /\ resp[r].kind = "json") =>
          LET jobs == Ret(log[r], "get_classifier_training_jobs")
              m == resp[r].body.state_classifier_mapping
          IN /\ DOMAIN m = {ExplorationStates[k] :
                              k \in {k \in 1..NumStates : jobs[k] # None}}
             /\ \A k \in 1..NumStates :
                   jobs[k] # None =>
                      /\ m[ExplorationStates[k]].algorithm_id
                            = JobData(jobs[k]).algorithm_id
                      /\ m[ExplorationStates[k]].classifier_data
                            = JobData(jobs[k]).classifier_data
                      /\ m[ExplorationStates[k]].data_schema_version
                            = JobData(jobs[k]).data_schema_version

\* C7 witness: an init response for an exploration in which one state has a
\* job, another has a different job and the mapping is not empty.
MappingWithTwoJobs ==
    \E r \in Requests :
       /\ req[r].handler = "ExplorationHandler.get"
       /\ resp[r].kind = "json"
       /\ Ret(log[r], "get_classifier_training_jobs")[1] = "jobA"
       /\ Ret(log[r], "get_classifier_training_jobs")[2] = "jobB"
       /\ DOMAIN resp[r].body.state_classifier_mapping # {}

ThreadCalls(r) == {k \in 1..Len(log[r]) : log[r][k].op = "create_thread"}

FeedbackDone(r) ==
    req[r].handler = "ReaderFeedbackHandler.post" /\ Passed(r) /\ pc[r] = "done"

\* C8: an authorized feedback POST creates exactly one thread, for its
\* exploration, with the user's id as author when include_author is truthy
\* and None otherwise; two feedback requests without include_author that
\* differ only in the user create identical threads.
FeedbackAuthorOnlyIfIncluded ==
    /\ \A r \in Requests :
          FeedbackDone(r) =>
             /\ Cardinality(ThreadCalls(r)) = 1
             /\ \A k \in ThreadCalls(r) :
                   /\ log[r][k].args[1] = req[r].exploration_id
                   /\ log[r][k].args[3] = IF Truthy(req[r].include_author)
                                          THEN req[r].user_id ELSE None
    /\ Len(store.threads) = Cardinality({r \in Requests : FeedbackDone(r)})
    /\ \A r1, r2 \in Requests :
          (/\ r1 # r2 /\ FeedbackDone(r1) /\ FeedbackDone(r2)
           /\ ~Truthy(req[r1].include_author) /\ ~Truthy(req[r2].include_author)
           /\ [req[r1] EXCEPT !.user_id = req[r2].user_id,
                              !.session_id = req[r2].session_id,
                              !.include_author = req[r2].include_author] = req[r2]) =>
             /\ store.threads[1] = store.threads[2]
             /\ \A k1 \in ThreadCalls(r1), k2 \in ThreadCalls(r2) :
                   log[r1][k1].args = log[r2][k2].args

\* C8 witness: two users have each sent the same feedback without
\* include_author.
AnonymousFeedbackFromTwoUsers ==
    /\ FeedbackDone(1) /\ FeedbackDone(2)
    /\ req[1].user_id = "u1" /\ req[2].user_id = "u2"
    /\ req[1].include_author = "False" /\ req[2].include_author = None
    /\ Len(store.threads) = 2

CompleteHandler == "ExplorationCompleteEventHandler.post"

\* The calls a complete-event POST makes once authorized, from its input and
\* from the reply to its read of the explorations left.
ExpectedCompleteCalls(i, left) ==
    <<"record">>
    \o (IF Truthy(i.user_id) THEN <<"mark_exploration_as_completed">> ELSE << >>)
    \o (IF Truthy(i.user_id) /\ Truthy(i.collection_id)
        THEN <<"record_played_exploration_in_collection_context",
               "get_next_exploration_ids_to_complete_by_user",
               IF left = << >> THEN "mark_collection_as_completed"
               ELSE "mark_collection_as_incomplete">>
        ELSE << >>)
    \o <<"render_json">>

LeftRead(r) ==
    IF HasOp(log[r], "get_next_exploration_ids_to_complete_by_user")
    THEN Ret(log[r], "get_next_exploration_ids_to_complete_by_user")
    ELSE << >>

\* C9: the calls of a complete-event POST are, in this order: the completion
\* event; for a logged-in user the exploration marked completed; and with a
\* collection_id also the exploration recorded as played, the read of the
\* explorations left, and one marking of the collection, completed exactly
\* when none is left; then the response.
CompleteCallsInOrder ==
    \A r \in Requests :
       (req[r].handler = CompleteHandler /\ Passed(r)) =>
          LET made == SubSeq(Ops(log[r]), 2, Len(log[r]))
              all == ExpectedCompleteCalls(req[r], LeftRead(r))
          IN /\ Len(made) <= Len(all)
             /\ made = SubSeq(all, 1, Len(made))
             /\ pc[r] = "done" => made = all
             /\ \A k \in 2..Len(log[r]) :
                   log[r][k].op \in {"mark_collection_as_completed",
                                     "mark_collection_as_incomplete"} =>
                      log[r][k].args = <<req[r].user_id, req[r].collection_id>>

\* C9 witness: a complete-event POST that found nothing left has marked the
\* collection completed and answered.
CollectionMarkedCompleted ==
    \E r \in Requests :
       /\ req[r].handler = CompleteHandler
       /\ pc[r] = "done"
       /\ HasOp(log[r], "mark_collection_as_completed")
       /\ <<req[r].user_id, req[r].collection_id, "completed">> \in store.coll_status

\* Two complete-event requests of user u1 for the two explorations of
\* collection c1, none of them played before, both authorized.
LastTwoExplorations ==
    /\ \A r \in Requests :
          /\ req[r].handler = CompleteHandler
          /\ req[r].user_id = "u1"
          /\ req[r].collection_id = "c1"
          /\ Passed(r)
    /\ {req[r].exploration_id : r \in Requests} = Range(CollectionNodes)

BothDone == \A r \in Requests : pc[r] = "done"

\* C10 as claimed: when both requests are done, the last marking made of the
\* collection is 'completed'.
LastMarkingIsCompleted ==
    (LastTwoExplorations /\ BothDone) => <<"u1", "c1", "completed">> \in store.coll_status

\* C10 as amended: in every interleaving each request marks the collection
\* as its own read of the explorations left says, and at least one of the
\* two, the one that read last, marks it completed; which marking is made
\* last is not decided by the handlers.
SomeRequestMarksCompleted ==
    LastTwoExplorations =>
       /\ \A r \in Requests :
             /\ HasOp(log[r], "mark_collection_as_completed") =>
                   Ret(log[r], "get_next_exploration_ids_to_complete_by_user") = << >>
             /\ HasOp(log[r], "mark_collection_as_incomplete") =>
                   Ret(log[r], "get_next_exploration_ids_to_complete_by_user") # << >>
       /\ BothDone =>
             /\ \E r \in Requests : HasOp(log[r], "mark_collection_as_completed")
             /\ \A r \in Requests :
                   CountOp(log[r], "mark_collection_as_completed")
                   + CountOp(log[r], "mark_collection_as_incomplete") = 1
             /\ \A e \in Range(CollectionNodes) : <<"u1", "c1", e>> \in store.played

\* C10 witness: both requests are done and both marked the collection
\* completed, each having read after the other recorded its exploration.
BothMarkedCompleted ==
    /\ LastTwoExplorations
    /\ BothDone
    /\ \A r \in Requests : HasOp(log[r], "mark_collection_as_completed")

\* The template values a page request got from its own lookups.
PageValues(r) ==
    LET version == log[r][FirstOp(log[r], "get_exploration_by_id")].args[2]
    IN [can_edit |-> Ret(log[r], "check_can_edit_activity"),
        exploration_title |-> "title",
        exploration_version |-> ExpVersion(version),
        collection_id |-> req[r].collection_id,
        collection_title |-> IF Truthy(req[r].collection_id)
                             THEN "collection title" ELSE None,
        is_private |-> Ret(log[r], "is_exploration_private"),
        nav_mode |-> "explore"]

\* What self.values of request r holds by the request's own input and the
\* replies to its own calls.
OwnValues(r) ==
    LET i == req[r]
        l == log[r]
        h == i.handler
    IN CASE h = "RatingHandler.get" /\ HasOp(l, "render_json") ->
              [overall_ratings |-> Ret(l, "get_overall_ratings_for_exploration"),
               user_rating |->
                  IF HasOp(l, "get_user_specific_rating_for_exploration")
                  THEN Ret(l, "get_user_specific_rating_for_exploration") ELSE None]
         [] h = "RecommendationsHandler.get"
            /\ HasOp(l, "get_displayable_exp_summary_dicts_matching_ids") ->
              [summaries |-> Ret(l, "get_displayable_exp_summary_dicts_matching_ids")]
         [] h = "ExplorationHandler.get" /\ HasOp(l, "render_json") ->
              [can_edit |-> Ret(l, "check_can_edit_activity"),
               exploration |-> "player_dict",
               exploration_id |-> i.exploration_id,
               is_logged_in |-> Truthy(i.user_id),
               session_id |-> Ret(l, "generate_new_session_id"),
               version |-> l[FirstOp(l, "get_classifier_training_jobs")].args[2],
               preferred_audio_language_code |-> Ret(l, "get_user_settings"),
               state_classifier_mapping |->
                  ExpectedMapping(Ret(l, "get_classifier_training_jobs"))]
         [] h = "ExplorationPageEmbed.get" /\ HasOp(l, "render_template") ->
              Update(PageValues(r), [iframed |-> TRUE])
         [] h = "ExplorationPageEmbed.get" /\ HasOp(l, "check_can_edit_activity")
            /\ (i.uri_embed \/ Truthy(i.iframed)) ->
              [iframed |-> TRUE]
         [] h = "ExplorationPage.get" /\ HasOp(l, "render_template") ->
              Update(PageValues(r), [iframed |-> FALSE])
         [] OTHER -> EmptyDict

\* The handlers that answer render_json({}).
EmptyJsonHandlers ==
    {"AnswerSubmittedEventHandler.post", "StateHitEventHandler.post",
     "StateCompleteEventHandler.post", "ExplorationStartEventHandler.post",
     "ExplorationActualStartEventHandler.post", "SolutionHitEventHandler.post",
     "RatingHandler.put"}

\* What the response of request r holds by its own input and replies.
OwnBody(r) ==
    CASE req[r].handler = "ClassifyHandler.post" -> Ret(log[r], "classify")
      [] req[r].handler \in EmptyJsonHandlers -> EmptyDict
      [] OTHER -> OwnValues(r)

\* The strings request r can pass to a service from its own input.
OwnStrings(r) ==
    LET i == req[r]
    IN {i.user_id, i.exploration_id, i.version, i.collection_id, i.state_name,
        i.session_id, i.raw_ids, i.answer, i.user_rating, None, LatestVersion,
        PayloadGet(i.subject, "Feedback from a learner"),
        "old_state", "feedback", "report_text", EventType(i.handler)}
       \cup Permissions

\* C6: with two requests handled concurrently, in every interleaving, what a
\* request holds in self.values and what it answers are built from its own
\* input and from the replies to its own calls, and every argument it passes
\* to a service is its own: nothing of the other request reaches it.
RequestsShareNothing ==
    \A r \in Requests :
       /\ vals[r] = OwnValues(r)
       /\ resp[r].kind \in {"json", "html", "page_not_found"} => resp[r].body = OwnBody(r)
       /\ \A k \in 1..Len(log[r]) :
             \A j \in 1..Len(log[r][k].args) : log[r][k].args[j] \in OwnStrings(r)

\* C6 witness: two requests are both in the middle of their handlers, one
\* having written its values, the other about to render its own.
BothInsideHandlers ==
    /\ req[1].handler = "RecommendationsHandler.get"
    /\ req[2].handler = CompleteHandler
    /\ pc[1] = "render"
    /\ pc[2] = "render"
    /\ vals[1] # EmptyDict
    /\ vals[2] = EmptyDict

MaybeLeaveHandler == "ExplorationMaybeLeaveHandler.post"

\* The calls a maybe-leave POST makes once authorized, from its input.
ExpectedLeaveCalls(i) ==
    (IF Truthy(i.user_id)
     THEN <<[op |-> "mark_exploration_as_incomplete",
             args |-> <<i.user_id, i.exploration_id, i.state_name, i.version>>]>>
     ELSE << >>)
    \o (IF Truthy(i.user_id) /\ Truthy(i.collection_id)
        THEN <<[op |-> "mark_collection_as_incomplete",
                args |-> <<i.user_id, i.collection_id>>]>>
        ELSE << >>)
    \o <<[op |-> "record",
          args |-> <<"MaybeLeaveExplorationEventHandler", i.exploration_id,
                     i.version, i.state_name, i.session_id>>]>>
    \o <<[op |-> "render_json", args |-> << >>]>>

\* C11: an authorized maybe-leave POST makes these calls in this order: for
\* a logged-in user the exploration marked incomplete with the payload's
\* state name and version, and with a collection_id the collection marked
\* incomplete; then, in every case, exactly one maybe-leave event; then the
\* response. An anonymous user's request makes no marking.
MaybeLeaveCallsInOrder ==
    \A r \in Requests :
       (req[r].handler = MaybeLeaveHandler /\ Passed(r)) =>
          LET made == [k \in 1..(Len(log[r]) - 1) |->
                          [op |-> log[r][k + 1].op, args |-> log[r][k + 1].args]]
              all == ExpectedLeaveCalls(req[r])
          IN /\ Len(made) <= Len(all)
             /\ made = SubSeq(all, 1, Len(made))
             /\ pc[r] = "done" =>
                   /\ made = all
                   /\ resp[r].kind = "json"
                   /\ store.events =
                         <<<<"MaybeLeaveExplorationEventHandler", req[r].exploration_id>>>>

\* C11 witness: a logged-in user's maybe-leave POST with a collection has
\* marked both, recorded the event after them and answered.
LeaveMarkedBothThenRecorded ==
    \E r \in Requests :
       /\ req[r].handler = MaybeLeaveHandler
       /\ pc[r] = "done"
       /\ req[r].state_name = "Middle"
       /\ Ops(log[r]) = <<"acl_check", "mark_exploration_as_incomplete",
                          "mark_collection_as_incomplete", "record", "render_json">>
       /\ <<req[r].user_id, req[r].collection_id, "incomplete">> \in store.coll_status

\* C11 witness of the other case: an anonymous maybe-leave POST has recorded
\* the event and nothing else.
AnonymousLeaveOnlyRecorded ==
    \E r \in Requests :
       /\ req[r].handler = MaybeLeaveHandler
       /\ pc[r] = "done"
       /\ ~Truthy(req[r].user_id)
       /\ Ops(log[r]) = <<"acl_check", "record", "render_json">>

RecommendationsHandler == "RecommendationsHandler.get"

NoDuplicates(q) == \A a, b \in 1..Len(q) : a # b => q[a] # q[b]

\* The automatic recommendations of request r are decided: the handler is at
\* the summaries lookup or past it.
AutoDecided(r) ==
    /\ req[r].handler = RecommendationsHandler
    /\ \/ pc[r] \in {"summaries", "render"}
       \/ pc[r] = "done" /\ resp[r].kind = "json"

\* C12: in every recommendations response the automatic ids hold no id of
\* the author's list and no duplicates, the summaries lookup is made for the
\* author's ids followed by the automatic ones, and automatic ids that come
\* from the system recommender are at most MAX_SYSTEM_RECOMMENDATIONS, each
\* one an id the recommender returned.
AutoRecommendationsDisjoint ==
    \A r \in Requests :
       AutoDecided(r) =>
          LET author == loc[r].author.v
              auto == loc[r].auto
          IN /\ Range(auto) \cap Range(author) = {}
             /\ NoDuplicates(auto)
             /\ HasOp(log[r], "get_displayable_exp_summary_dicts_matching_ids") =>
                   Ret(log[r], "get_displayable_exp_summary_dicts_matching_ids")
                      = author \o auto
             /\ (pc[r] = "done") => resp[r].body.summaries = author \o auto
             /\ HasOp(log[r], "get_exploration_recommendations") =>
                   /\ Len(auto) <= MAX_SYSTEM_RECOMMENDATIONS
                   /\ Range(auto) \subseteq
                         Range(Ret(log[r], "get_exploration_recommendations"))

\* C12 witness: a response whose automatic ids are a full sample of the
\* system recommender's ids, which held an id of the author's list too.
SystemSampleWithoutAuthorIds ==
    \E r \in Requests :
       /\ req[r].handler = RecommendationsHandler
       /\ pc[r] = "done"
       /\ resp[r].kind = "json"
       /\ HasOp(log[r], "get_exploration_recommendations")
       /\ Range(loc[r].author.v) \cap Range(store.recs) # {}
       /\ Len(loc[r].auto) = MAX_SYSTEM_RECOMMENDATIONS

ToCompleteOp == "get_next_exploration_ids_to_complete_by_user"
InSequenceOp == "get_next_exploration_ids_in_sequence"
SystemOp == "get_exploration_recommendations"

\* The reply to the first call of op in log l, the empty list without one.
ListReply(l, op) == IF HasOp(l, op) THEN Ret(l, op) ELSE << >>

\* C13: a logged-in user's request with a collection_id reads the user's next
\* explorations to complete, recommends those that are not the author's, and
\* never calls the system recommender, even with none left; every other
\* request reads the collection's next explorations in sequence when it has
\* a collection_id, recommends those that are not the author's when there are
\* any, and calls the system recommender exactly when there are none and
\* include_system_recommendations is set.
RecommendationsByContext ==
    \A r \in Requests :
       (req[r].handler = RecommendationsHandler /\ Passed(r)) =>
          LET i == req[r]
              l == log[r]
              author == Range(loc[r].author.v)
              auto == loc[r].auto
              inContext == Truthy(i.user_id) /\ Truthy(i.collection_id)
              seq == ListReply(l, InSequenceOp)
          IN IF inContext
             THEN /\ ~HasOp(l, SystemOp)
                  /\ ~HasOp(l, InSequenceOp)
                  /\ ~HasOp(l, "get_collection_by_id")
                  /\ AutoDecided(r) =>
                        /\ HasOp(l, ToCompleteOp)
                        /\ l[FirstOp(l, ToCompleteOp)].args
                              = <<i.user_id, i.collection_id>>
                        /\ Range(auto) = Range(Ret(l, ToCompleteOp)) \ author
             ELSE /\ ~HasOp(l, ToCompleteOp)
                  /\ HasOp(l, InSequenceOp) =>
                        /\ Truthy(i.collection_id)
                        /\ l[FirstOp(l, InSequenceOp)].args = <<i.exploration_id>>
                  /\ HasOp(l, SystemOp) =>
                        /\ seq = << >>
                        /\ Truthy(i.include_sys)
                        /\ Truthy(i.collection_id) => HasOp(l, InSequenceOp)
                  /\ AutoDecided(r) =>
                        /\ Truthy(i.collection_id) <=> HasOp(l, InSequenceOp)
                        /\ IF seq # << >>
                           THEN Range(auto) = Range(seq) \ author
                           ELSE /\ HasOp(l, SystemOp) <=> Truthy(i.include_sys)
                                /\ ~HasOp(l, SystemOp) => auto = << >>

\* C13 witness: a logged-in user with nothing left in the collection asked
\* for system recommendations and was answered without any.
NothingLeftNoSystemCall ==
    \E r \in Requests :
       /\ req[r].handler = RecommendationsHandler
       /\ pc[r] = "done"
       /\ resp[r].kind = "json"
       /\ Truthy(req[r].user_id)
       /\ Truthy(req[r].include_sys)
       /\ HasOp(log[r], ToCompleteOp)
       /\ Ret(log[r], ToCompleteOp) = << >>
       /\ store.recs # << >>
       /\ loc[r].auto = << >>

\* C13 witness of the other branch: an anonymous request in a collection
\* whose sequence has ended was answered from the system recommender.
SequenceEndedSystemCalled ==
    \E r \in Requests :
       /\ req[r].handler = RecommendationsHandler
       /\ pc[r] = "done"
       /\ resp[r].kind = "json"
       /\ HasOp(log[r], InSequenceOp)
       /\ HasOp(log[r], SystemOp)
       /\ loc[r].auto # << >>

PageHandler == "ExplorationPage.get"
EmbedHandler == "ExplorationPageEmbed.get"

\* Where GET /explore redirects a request that has the iframed parameter.
EmbedUrl(i) ==
    <<"/embed/exploration/", i.exploration_id>>
    \o (IF Truthy(i.version) THEN <<"?v=", i.version>> ELSE << >>)

\* What the two page endpoints do with request r, once it is over: the page
\* endpoint redirects when iframed is set, making no lookup and rendering
\* nothing, and otherwise renders with iframed False; the embed endpoint
\* renders with iframed True; a failed lookup is page-not-found, on the embed
\* endpoint with iframed already True when the URI has the embed prefix or
\* iframed is set.
PageAnswer(r) ==
    LET i == req[r]
        kind == resp[r].kind
        body == resp[r].body
    IN IF i.handler = PageHandler /\ Truthy(i.iframed)
       THEN /\ kind = "redirect"
            /\ body = [url |-> EmbedUrl(i)]
            /\ \A k \in 1..Len(log[r]) :
                  log[r][k].op \notin LookupOps \cup {"render_template"}
            /\ vals[r] = EmptyDict
       ELSE /\ kind = IF FailedLookup(r) THEN "page_not_found" ELSE "html"
            /\ kind = "html" =>
                  /\ HasOp(log[r], "render_template")
                  /\ body = vals[r]
                  /\ body.iframed = (i.handler = EmbedHandler)
            /\ kind = "page_not_found" =>
                  /\ ~HasOp(log[r], "render_template")
                  /\ (i.handler = EmbedHandler /\ (i.uri_embed \/ Truthy(i.iframed))) =>
                        /\ "iframed" \in DOMAIN vals[r]
                        /\ vals[r].iframed = TRUE

PageRequestOver(r) ==
    /\ req[r].handler \in {PageHandler, EmbedHandler}
    /\ Passed(r)
    /\ pc[r] = "done"

\* C14: GET /explore renders the page with iframed False, except that with
\* the iframed parameter set it redirects to /embed/exploration/<id>, with
\* ?v=<v> appended exactly when a version was given, without loading the
\* exploration or rendering; GET on the embed endpoint renders with iframed
\* True, and on a failed lookup there iframed is set before page-not-found
\* is raised when the URI has the embed prefix or iframed is set.
PagesRenderOrRedirect ==
    \A r \in Requests : PageRequestOver(r) => PageAnswer(r)

\* The v parameter is empty or a numeral: int(version_str) does not raise.
VersionParses(i) == ~Truthy(i.version) \/ int(i.version) # "ValueError"

\* The page endpoints answer as PageAnswer says whenever the v parameter
\* parses; with any other v both raise ValueError before anything else.
PagesRenderOrRedirectWhenVersionParses ==
    \A r \in Requests :
       PageRequestOver(r) =>
          IF VersionParses(req[r])
          THEN PageAnswer(r)
          ELSE /\ resp[r].kind = "exception"
               /\ Len(log[r]) = 1
               /\ vals[r] = EmptyDict

\* A request with iframed set and a version was redirected to the embed URL
\* carrying the version.
RedirectedWithVersion ==
    \E r \in Requests :
       /\ req[r].handler = PageHandler
       /\ resp[r].kind = "redirect"
       /\ resp[r].body.url = <<"/embed/exploration/", "e1", "?v=", "1">>

\* An embed request whose lookup failed raised page-not-found with iframed
\* already set.
EmbedNotFoundWithIframed ==
    \E r \in Requests :
       /\ req[r].handler = EmbedHandler
       /\ resp[r].kind = "page_not_found"
       /\ vals[r] = [iframed |-> TRUE]

====
